---- MODULE Spec2Model ----
(***************************************************************************)
(* Model of the Data Redundancy Removal System: the content-addressed      *)
(* deduplication store (services.DataValidator), its table (database.      *)
(* DataEntry) and the boundary handlers of main.py (check_data,            *)
(* submit_data, list_entries).                                             *)
(*                                                                         *)
(* Bytes are naturals 0..255, byte buffers and strings are sequences       *)
(* (strings are sequences of Unicode code points).  Each handler runs in   *)
(* its own database session; one step of the model is one database         *)
(* statement together with the in-memory code that precedes or follows it. *)
(***************************************************************************)
EXTENDS Integers, Sequences, FiniteSets, TLC

(***************************************************************************)
(* Bounds of the model.                                                    *)
(***************************************************************************)
MaxCalls == 2

Procs == {"p1", "p2"}

None == "None"

(***************************************************************************)
(* bytes.decode('utf-8'): strict UTF-8 decoding.  The result is            *)
(* [ok |-> TRUE, s |-> code points] or [ok |-> FALSE] (UnicodeDecodeError).*)
(***************************************************************************)
IsCont(x) == x >= 128 /\ x <= 191

RECURSIVE Utf8From(_, _, _)
Utf8From(b, i, acc) ==
    IF i > Len(b) THEN [ok |-> TRUE, s |-> acc]
    ELSE LET c == b[i] IN
         IF c < 128 THEN Utf8From(b, i + 1, Append(acc, c))
         ELSE IF c >= 194 /\ c <= 223 THEN
              IF i + 1 <= Len(b) /\ IsCont(b[i + 1])
              THEN Utf8From(b, i + 2,
                            Append(acc, (c - 192) * 64 + (b[i + 1] - 128)))
              ELSE [ok |-> FALSE, s |-> <<>>]
         ELSE IF c >= 224 /\ c <= 239 THEN
              IF /\ i + 2 <= Len(b)
                 /\ IsCont(b[i + 1])
                 /\ IsCont(b[i + 2])
                 /\ (c = 224 => b[i + 1] >= 160)
                 /\ (c = 237 => b[i + 1] <= 159)
              THEN Utf8From(b, i + 3,
                            Append(acc, (c - 224) * 4096 + (b[i + 1] - 128) * 64
                                        + (b[i + 2] - 128)))
              ELSE [ok |-> FALSE, s |-> <<>>]
         ELSE IF c >= 240 /\ c <= 244 THEN
              IF /\ i + 3 <= Len(b)
                 /\ IsCont(b[i + 1])
                 /\ IsCont(b[i + 2])
                 /\ IsCont(b[i + 3])
                 /\ (c = 240 => b[i + 1] >= 144)
                 /\ (c = 244 => b[i + 1] <= 143)
              THEN Utf8From(b, i + 4,
                            Append(acc, (c - 240) * 262144 + (b[i + 1] - 128) * 4096
                                        + (b[i + 2] - 128) * 64 + (b[i + 3] - 128)))
              ELSE [ok |-> FALSE, s |-> <<>>]
         ELSE [ok |-> FALSE, s |-> <<>>]

Utf8Decode(b) == Utf8From(b, 1, <<>>)

(***************************************************************************)
(* str.encode('utf-8') as the database driver applies it to a bound text   *)
(* parameter: it fails (UnicodeEncodeError) on a surrogate code point.     *)
(***************************************************************************)
IsSurrogate(c) == c >= 55296 /\ c <= 57343

Utf8Encodable(s) == \A i \in 1..Len(s) : ~IsSurrogate(s[i])

(***************************************************************************)
(* base64.b64encode(content).decode('utf-8')                               *)
(***************************************************************************)
B64Char(v) ==
    IF v < 26 THEN 65 + v
    ELSE IF v < 52 THEN 97 + (v - 26)
    ELSE IF v < 62 THEN 48 + (v - 52)
    ELSE IF v = 62 THEN 43
    ELSE 47

RECURSIVE B64From(_, _)
B64From(b, i) ==
    LET n == Len(b) - i + 1 IN
    IF n <= 0 THEN <<>>
    ELSE IF n = 1 THEN
         << B64Char(b[i] \div 4), B64Char((b[i] % 4) * 16), 61, 61 >>
    ELSE IF n = 2 THEN
         << B64Char(b[i] \div 4),
            B64Char((b[i] % 4) * 16 + (b[i + 1] \div 16)),
            B64Char((b[i + 1] % 16) * 4), 61 >>
    ELSE << B64Char(b[i] \div 4),
            B64Char((b[i] % 4) * 16 + (b[i + 1] \div 16)),
            B64Char((b[i + 1] % 16) * 4 + (b[i + 2] \div 64)),
            B64Char(b[i + 2] % 64) >> \o B64From(b, i + 3)

b64encode(b) == B64From(b, 1)

(***************************************************************************)
(* json.loads(content_str) for the JSON grammar of whitespace, unsigned    *)
(* integers, the literals true/false/null, strings (with escapes), arrays  *)
(* and objects.  A parsed value is a record [t, v]:                        *)
(*   "int"  v = the digits,       "lit"  v = the literal's characters,     *)
(*   "str"  v = the code points,  "arr"  v = the items,                    *)
(*   "obj"  v = the <<key, value>> pairs in dict order.                    *)
(* A parse result is [ok, v, i]; ok = FALSE is json.JSONDecodeError and i  *)
(* is the index after the value otherwise.                                 *)
(***************************************************************************)
JFail == [ok |-> FALSE, v |-> <<>>, i |-> 0]

JOk(val, next) == [ok |-> TRUE, v |-> val, i |-> next]

IsWs(c) == c \in {32, 9, 10, 13}

IsDigit(c) == c >= 48 /\ c <= 57

RECURSIVE SkipWs(_, _)
SkipWs(s, i) == IF i <= Len(s) /\ IsWs(s[i]) THEN SkipWs(s, i + 1) ELSE i

HexVal(c) ==
    IF c >= 48 /\ c <= 57 THEN c - 48
    ELSE IF c >= 97 /\ c <= 102 THEN c - 87
    ELSE IF c >= 65 /\ c <= 70 THEN c - 55
    ELSE -1

\* The four hex digits of a \uXXXX escape starting at s[i], or -1.
Hex4(s, i) ==
    IF i + 3 <= Len(s) /\ \A k \in 0..3 : HexVal(s[i + k]) >= 0
    THEN HexVal(s[i]) * 4096 + HexVal(s[i + 1]) * 256
         + HexVal(s[i + 2]) * 16 + HexVal(s[i + 3])
    ELSE -1

SimpleEscape(c) ==
    IF c = 34 THEN 34          \* \"
    ELSE IF c = 92 THEN 92     \* \\
    ELSE IF c = 47 THEN 47     \* \/
    ELSE IF c = 98 THEN 8      \* \b
    ELSE IF c = 102 THEN 12    \* \f
    ELSE IF c = 110 THEN 10    \* \n
    ELSE IF c = 114 THEN 13    \* \r
    ELSE IF c = 116 THEN 9     \* \t
    ELSE -1

\* py_scanstring, strict: s[i] is the first character after the opening quote.
RECURSIVE ScanString(_, _, _)
ScanString(s, i, acc) ==
    IF i > Len(s) THEN JFail
    ELSE LET c == s[i] IN
         IF c = 34 THEN JOk([t |-> "str", v |-> acc], i + 1)
         ELSE IF c < 32 THEN JFail
         ELSE IF c # 92 THEN ScanString(s, i + 1, Append(acc, c))
         ELSE IF i + 1 > Len(s) THEN JFail
         ELSE IF s[i + 1] # 117 THEN
              IF SimpleEscape(s[i + 1]) < 0 THEN JFail
              ELSE ScanString(s, i + 2, Append(acc, SimpleEscape(s[i + 1])))
         ELSE LET u == Hex4(s, i + 2) IN
              IF u < 0 THEN JFail
              ELSE IF /\ u >= 55296 /\ u <= 56319
                      /\ i + 7 <= Len(s)
                      /\ s[i + 6] = 92 /\ s[i + 7] = 117
                      /\ Hex4(s, i + 8) >= 56320 /\ Hex4(s, i + 8) <= 57343
                   THEN ScanString(s, i + 12,
                            Append(acc, 65536 + (u - 55296) * 1024
                                        + (Hex4(s, i + 8) - 56320)))
                   ELSE ScanString(s, i + 6, Append(acc, u))

RECURSIVE ScanDigits(_, _, _)
ScanDigits(s, i, acc) ==
    IF i <= Len(s) /\ IsDigit(s[i]) THEN ScanDigits(s, i + 1, Append(acc, s[i]))
    ELSE JOk([t |-> "int", v |-> acc], i)

MatchLit(s, i, lit) ==
    IF i + Len(lit) - 1 <= Len(s) /\ \A k \in 1..Len(lit) : s[i + k - 1] = lit[k]
    THEN JOk([t |-> "lit", v |-> lit], i + Len(lit))
    ELSE JFail

\* dict[k] = val: a repeated key keeps its first position and takes the last value.
DictSet(pairs, k, val) ==
    IF \E j \in 1..Len(pairs) : pairs[j][1] = k
    THEN [j \in 1..Len(pairs) |-> IF pairs[j][1] = k THEN <<k, val>> ELSE pairs[j]]
    ELSE Append(pairs, <<k, val>>)

RECURSIVE ScanValue(_, _)
RECURSIVE ScanItems(_, _, _)
RECURSIVE ScanPairs(_, _, _)

\* scan_once: the value starting at s[i] (no leading whitespace).
ScanValue(s, i) ==
    IF i > Len(s) THEN JFail
    ELSE LET c == s[i] IN
         IF c = 34 THEN ScanString(s, i + 1, <<>>)
         ELSE IF c = 91 THEN
              LET j == SkipWs(s, i + 1) IN
              IF j <= Len(s) /\ s[j] = 93 THEN JOk([t |-> "arr", v |-> <<>>], j + 1)
              ELSE ScanItems(s, j, <<>>)
         ELSE IF c = 123 THEN
              LET j == SkipWs(s, i + 1) IN
              IF j <= Len(s) /\ s[j] = 125 THEN JOk([t |-> "obj", v |-> <<>>], j + 1)
              ELSE ScanPairs(s, j, <<>>)
         ELSE IF c = 48 THEN JOk([t |-> "int", v |-> <<48>>], i + 1)
         ELSE IF IsDigit(c) THEN ScanDigits(s, i, <<>>)
         ELSE IF c = 116 THEN MatchLit(s, i, <<116, 114, 117, 101>>)
         ELSE IF c = 102 THEN MatchLit(s, i, <<102, 97, 108, 115, 101>>)
         ELSE IF c = 110 THEN MatchLit(s, i, <<110, 117, 108, 108>>)
         ELSE JFail

\* JSONArray: s[i] starts an item; acc holds the items parsed so far.
ScanItems(s, i, acc) ==
    LET r == ScanValue(s, i) IN
    IF ~r.ok THEN JFail
    ELSE LET j == SkipWs(s, r.i) IN
         IF j > Len(s) THEN JFail
         ELSE IF s[j] = 93 THEN JOk([t |-> "arr", v |-> Append(acc, r.v)], j + 1)
         ELSE IF s[j] = 44 THEN ScanItems(s, SkipWs(s, j + 1), Append(acc, r.v))
         ELSE JFail

\* JSONObject: s[i] must open a key; acc holds the pairs parsed so far.
ScanPairs(s, i, acc) ==
    IF i > Len(s) \/ s[i] # 34 THEN JFail
    ELSE LET k == ScanString(s, i + 1, <<>>) IN
         IF ~k.ok THEN JFail
         ELSE LET c == SkipWs(s, k.i) IN
              IF c > Len(s) \/ s[c] # 58 THEN JFail
              ELSE LET r == ScanValue(s, SkipWs(s, c + 1)) IN
                   IF ~r.ok THEN JFail
                   ELSE LET j == SkipWs(s, r.i)
                            d == DictSet(acc, k.v.v, r.v)
                        IN IF j > Len(s) THEN JFail
                           ELSE IF s[j] = 125 THEN JOk([t |-> "obj", v |-> d], j + 1)
                           ELSE IF s[j] = 44 THEN ScanPairs(s, SkipWs(s, j + 1), d)
                           ELSE JFail

\* json.loads: leading whitespace, one value, trailing whitespace, nothing else.
JsonLoads(s) ==
    LET r == ScanValue(s, SkipWs(s, 1)) IN
    IF r.ok /\ SkipWs(s, r.i) = Len(s) + 1 THEN r ELSE JFail

(***************************************************************************)
(* json.dumps(json_content, indent=2, ensure_ascii=False)                  *)
(***************************************************************************)
HexDigit(v) == IF v < 10 THEN 48 + v ELSE 87 + v

\* encode_basestring: the escape of one character of a string.
EscapeChar(c) ==
    IF c = 34 THEN <<92, 34>>
    ELSE IF c = 92 THEN <<92, 92>>
    ELSE IF c = 10 THEN <<92, 110>>
    ELSE IF c = 13 THEN <<92, 114>>
    ELSE IF c = 9 THEN <<92, 116>>
    ELSE IF c = 8 THEN <<92, 98>>
    ELSE IF c = 12 THEN <<92, 102>>
    ELSE IF c < 32 THEN <<92, 117, 48, 48, HexDigit(c \div 16), HexDigit(c % 16)>>
    ELSE <<c>>

RECURSIVE EscapeFrom(_, _)
EscapeFrom(s, i) ==
    IF i > Len(s) THEN <<>> ELSE EscapeChar(s[i]) \o EscapeFrom(s, i + 1)

Quote(s) == <<34>> \o EscapeFrom(s, 1) \o <<34>>

RECURSIVE Spaces(_)
Spaces(n) == IF n <= 0 THEN <<>> ELSE <<32>> \o Spaces(n - 1)

NewlineIndent(level) == <<10>> \o Spaces(2 * level)

RECURSIVE Dumps(_, _)
RECURSIVE DumpItems(_, _, _)
RECURSIVE DumpPairs(_, _, _)

Dumps(val, level) ==
    IF val.t \in {"int", "lit"} THEN val.v
    ELSE IF val.t = "str" THEN Quote(val.v)
    ELSE IF val.t = "arr" THEN
         IF Len(val.v) = 0 THEN <<91, 93>>
         ELSE <<91>> \o DumpItems(val.v, 1, level + 1)
                     \o NewlineIndent(level) \o <<93>>
    ELSE IF Len(val.v) = 0 THEN <<123, 125>>
         ELSE <<123>> \o DumpPairs(val.v, 1, level + 1)
                      \o NewlineIndent(level) \o <<125>>

DumpItems(items, k, level) ==
    IF k > Len(items) THEN <<>>
    ELSE (IF k > 1 THEN <<44>> ELSE <<>>) \o NewlineIndent(level)
         \o Dumps(items[k], level) \o DumpItems(items, k + 1, level)

DumpPairs(pairs, k, level) ==
    IF k > Len(pairs) THEN <<>>
    ELSE (IF k > 1 THEN <<44>> ELSE <<>>) \o NewlineIndent(level)
         \o Quote(pairs[k][1]) \o <<58, 32>>
         \o Dumps(pairs[k][2], level) \o DumpPairs(pairs, k + 1, level)

JsonDumps(val) == Dumps(val, 0)

\* A normalization that stores decoded text as it is, JSON or not.
NormalizeTextAsIs(content) ==
    LET d == Utf8Decode(content) IN
    IF d.ok THEN d.s ELSE b64encode(content)

(***************************************************************************)
(* The normalization of create_data_entry: decoded and re-serialized JSON, *)
(* else the decoded text, else base64 of the raw bytes.                    *)
(***************************************************************************)
Normalize(content) ==
    LET d == Utf8Decode(content) IN
    IF d.ok THEN
        LET j == JsonLoads(d.s) IN
        IF j.ok THEN JsonDumps(j.v) ELSE d.s
    ELSE b64encode(content)

(***************************************************************************)
(* DataValidator.generate_hash: BLAKE3 of the raw bytes, as an ideal       *)
(* (collision-free) digest: the digest of b is a value that determines b.  *)
(***************************************************************************)
generate_hash(content) == [blake3 |-> content]

(***************************************************************************)
(* DataValidator.detect_content_type: libmagic's MIME sniffing of the      *)
(* buffer, reduced to its text / binary decision.                          *)
(***************************************************************************)
detect_content_type(content) ==
    IF Len(content) = 0 THEN "application/x-empty"
    ELSE IF Utf8Decode(content).ok THEN "text/plain"
    ELSE "application/octet-stream"

\* min(max(confidence_score, 0), 100)
Max(a, b) == IF a >= b THEN a ELSE b

Min(a, b) == IF a <= b THEN a ELSE b

\* A clamp that forgets the lower bound.
ClampScoreUpperOnly(confidence_score) == Min(confidence_score, 100)

ClampScore(confidence_score) == Min(Max(confidence_score, 0), 100)

(***************************************************************************)
(* The inputs of the calls.                                                *)
(***************************************************************************)
\* "hi", {"a":1}, the byte 0xFF, and the JSON text "\ud800" (8 ASCII bytes).
Payloads ==
    { <<104, 105>>,
      <<123, 34, 97, 34, 58, 49, 125>>,
      <<255>>,
      <<34, 92, 117, 100, 56, 48, 48, 34>> }

\* The form fields of submit_data next to the file.
Hints ==
    { [content_type |-> None, source |-> None,
       is_verified |-> TRUE, confidence_score |-> 100],
      [content_type |-> "application/json", source |-> "api",
       is_verified |-> FALSE, confidence_score |-> -5],
      [content_type |-> "text/plain", source |-> None,
       is_verified |-> TRUE, confidence_score |-> 500] }

\* The metadata form field: absent, "{}" and "{".
Metadatas == { <<>>, <<123, 125>>, <<123>> }

\* json.loads(metadata) if metadata else {}: TRUE iff it raises.
MetadataRaises(metadata) == Len(metadata) > 0 /\ ~JsonLoads(metadata).ok

(***************************************************************************)
(* database.DataEntry: the members the class defines, and the rows of the  *)
(* table data_entries.                                                     *)
(***************************************************************************)
DataEntryMembers ==
    { "__tablename__", "id", "content_hash", "content", "content_type",
      "is_verified", "created_at", "updated_at", "source",
      "confidence_score", "__table_args__" }

NoEntry == [id |-> 0]

\* INTEGER PRIMARY KEY: the next rowid.
NextId(table) ==
    IF table = {} THEN 1
    ELSE (CHOOSE m \in {e.id : e \in table} : \A e \in table : e.id <= m) + 1

\* A query without the filter on content_hash: the first row of the table.
QueryFirstRow(table, content_hash) ==
    IF table # {}
    THEN CHOOSE e \in table : \A o \in table : e.id <= o.id
    ELSE NoEntry

\* db.query(DataEntry).filter(DataEntry.content_hash == content_hash).first()
QueryByHash(table, content_hash) ==
    IF \E e \in table : e.content_hash = content_hash
    THEN CHOOSE e \in table : e.content_hash = content_hash
    ELSE NoEntry

\* An INSERT into a table without the UNIQUE index on content_hash.
DbInsertNoUnique(table, row, utcnow) ==
    LET full == [id |-> NextId(table),
                 content_hash |-> row.content_hash,
                 content |-> row.content,
                 content_type |-> row.content_type,
                 is_verified |-> row.is_verified,
                 source |-> row.source,
                 confidence_score |-> row.confidence_score,
                 created_at |-> utcnow,
                 updated_at |-> utcnow]
    IN [ok |-> TRUE, table |-> table \cup {full}, row |-> full]

\* An INSERT OR REPLACE: a row with the same content_hash is replaced.
DbInsertReplace(table, row, utcnow) ==
    LET full == [id |-> NextId(table),
                 content_hash |-> row.content_hash,
                 content |-> row.content,
                 content_type |-> row.content_type,
                 is_verified |-> row.is_verified,
                 source |-> row.source,
                 confidence_score |-> row.confidence_score,
                 created_at |-> utcnow,
                 updated_at |-> utcnow]
    IN [ok |-> TRUE,
        table |-> {e \in table : e.content_hash # row.content_hash} \cup {full},
        row |-> full]

\* INSERT of a row under the UNIQUE index on content_hash (db.add, db.commit),
\* with the defaults of id, created_at and updated_at filled in.
DbInsert(table, row, utcnow) ==
    IF \E e \in table : e.content_hash = row.content_hash
    THEN [ok |-> FALSE, table |-> table, row |-> NoEntry]
    ELSE LET full == [id |-> NextId(table),
                      content_hash |-> row.content_hash,
                      content |-> row.content,
                      content_type |-> row.content_type,
                      is_verified |-> row.is_verified,
                      source |-> row.source,
                      confidence_score |-> row.confidence_score,
                      created_at |-> utcnow,
                      updated_at |-> utcnow]
         IN [ok |-> TRUE, table |-> table \cup {full}, row |-> full]

\* A validate_data that matches on the content type hint as well.
validate_data_typed(table, content, content_type) ==
    LET content_hash == generate_hash(content)
        found == {e \in table : /\ e.content_hash = content_hash
                                /\ (content_type # None
                                       => e.content_type = content_type)}
    IN IF found # {}
       THEN [is_duplicate |-> TRUE, existing_entry |-> CHOOSE e \in found : TRUE,
             content_hash |-> content_hash, classified |-> 0]
       ELSE [is_duplicate |-> FALSE, existing_entry |-> NoEntry,
             content_hash |-> content_hash,
             classified |-> IF content_type = None THEN 1 ELSE 0]

(***************************************************************************)
(* DataValidator.validate_data against the rows a session sees.            *)
(* classified counts the calls of detect_content_type.                     *)
(***************************************************************************)
validate_data(table, content, content_type) ==
    LET content_hash == generate_hash(content)
        existing_entry == QueryByHash(table, content_hash)
    IN IF existing_entry # NoEntry
       THEN [is_duplicate |-> TRUE, existing_entry |-> existing_entry,
             content_hash |-> content_hash, classified |-> 0]
       ELSE [is_duplicate |-> FALSE, existing_entry |-> NoEntry,
             content_hash |-> content_hash,
             classified |-> IF content_type = None THEN 1 ELSE 0]

\* A create_data_entry that hashes the normalized content.
NewEntryHashOfContent(content, content_hash, hints) ==
    [content_hash |-> generate_hash(Normalize(content)),
     content |-> Normalize(content),
     content_type |-> IF hints.content_type = None
                      THEN detect_content_type(content)
                      ELSE hints.content_type,
     is_verified |-> hints.is_verified,
     source |-> hints.source,
     confidence_score |-> ClampScore(hints.confidence_score)]

\* The DataEntry(...) that create_data_entry builds for a new entry.
NewEntry(content, content_hash, hints) ==
    [content_hash |-> content_hash,
     content |-> Normalize(content),
     content_type |-> IF hints.content_type = None
                      THEN detect_content_type(content)
                      ELSE hints.content_type,
     is_verified |-> hints.is_verified,
     source |-> hints.source,
     confidence_score |-> ClampScore(hints.confidence_score)]

(***************************************************************************)
(* The exceptions that reach the handlers' "except Exception", and the     *)
(* HTTPException(status_code=400, detail=str(e)) they are turned into.     *)
(***************************************************************************)
ExcMessage(exc) ==
    IF exc = "JSONDecodeError" THEN "Expecting value"
    ELSE IF exc = "IntegrityError" THEN "UNIQUE constraint failed: data_entries.content_hash"
    ELSE IF exc = "OperationalError" THEN "unable to open database file"
    ELSE IF exc = "UnicodeEncodeError" THEN "surrogates not allowed"
    ELSE "'DataEntry' object has no attribute 'to_dict'"

HTTPException(exc) == [status |-> 400, detail |-> ExcMessage(exc)]

NoResponse == [status |-> 0]

\* entry.to_dict(): the attribute lookup on a DataEntry.
ToDictRaises == "to_dict" \notin DataEntryMembers

(***************************************************************************)
(* State.                                                                  *)
(***************************************************************************)
VARIABLES
    store,   \* the committed rows of data_entries
    clock,   \* datetime.utcnow(), advanced by one at every call
    pc,      \* where each caller's handler stands
    req,     \* the inputs of the caller's current call
    loc,     \* the locals of validate_data / create_data_entry
    exc,     \* the exception that ended the call, or None
    resp     \* the response the caller received

vars == <<store, clock, pc, req, loc, exc, resp>>

NoReq == [op |-> None]

NoLoc == [is_duplicate |-> FALSE, existing_entry |-> NoEntry,
          content_hash |-> None, new_entry |-> NoEntry, entry |-> NoEntry,
          created |-> FALSE, classified |-> 0]

Init ==
    /\ store = {}
    /\ clock = 0
    /\ pc = [p \in Procs |-> "idle"]
    /\ req = [p \in Procs |-> NoReq]
    /\ loc = [p \in Procs |-> NoLoc]
    /\ exc = [p \in Procs |-> None]
    /\ resp = [p \in Procs |-> NoResponse]

\* The handler's except clause: the call ends with HTTP 400.
Raise(p, e) ==
    /\ pc' = [pc EXCEPT ![p] = "done"]
    /\ exc' = [exc EXCEPT ![p] = e]
    /\ resp' = [resp EXCEPT ![p] = HTTPException(e)]

(***************************************************************************)
(* check_data: read the file, parse the metadata.                          *)
(***************************************************************************)
CheckBegin(p) ==
    /\ pc[p] \in {"idle", "done"}
    /\ clock < MaxCalls
    /\ clock' = clock + 1
    /\ \E content \in Payloads, source \in {None, "api"}, metadata \in Metadatas :
          /\ req' = [req EXCEPT ![p] =
                        [op |-> "check", content |-> content,
                         hints |-> [content_type |-> None, source |-> source,
                                    is_verified |-> TRUE, confidence_score |-> 100]]]
          /\ loc' = [loc EXCEPT ![p] = NoLoc]
          /\ IF MetadataRaises(metadata)
             THEN Raise(p, "JSONDecodeError")
             ELSE /\ pc' = [pc EXCEPT ![p] = "validate"]
                  /\ exc' = [exc EXCEPT ![p] = None]
                  /\ resp' = [resp EXCEPT ![p] = NoResponse]
    /\ UNCHANGED store

(***************************************************************************)
(* A check_data that creates the entry it does not find.                   *)
(***************************************************************************)
CheckValidateCreating(p) ==
    /\ pc[p] = "validate"
    /\ req[p].op = "check"
    /\ LET v == validate_data(store, req[p].content, None)
           r == DbInsert(store,
                         NewEntry(req[p].content, v.content_hash, req[p].hints),
                         clock)
       IN /\ loc' = [loc EXCEPT ![p] =
                        [@ EXCEPT !.is_duplicate = v.is_duplicate,
                                  !.existing_entry = v.existing_entry,
                                  !.content_hash = v.content_hash,
                                  !.classified = v.classified]]
          /\ store' = r.table
          /\ pc' = [pc EXCEPT ![p] = "respond"]
    /\ UNCHANGED <<clock, req, exc, resp>>

(***************************************************************************)
(* check_data: the call of validate_data (one SELECT).                     *)
(***************************************************************************)
CheckValidate(p) ==
    /\ pc[p] = "validate"
    /\ req[p].op = "check"
    /\ \/ LET v == validate_data(store, req[p].content, None) IN
          /\ loc' = [loc EXCEPT ![p] =
                        [@ EXCEPT !.is_duplicate = v.is_duplicate,
                                  !.existing_entry = v.existing_entry,
                                  !.content_hash = v.content_hash,
                                  !.classified = v.classified]]
          /\ pc' = [pc EXCEPT ![p] = "respond"]
          /\ UNCHANGED <<exc, resp>>
       \/ /\ Raise(p, "OperationalError")
          /\ UNCHANGED loc
    /\ UNCHANGED <<store, clock, req>>

(***************************************************************************)
(* check_data: build the response dict.                                    *)
(***************************************************************************)
CheckRespond(p) ==
    /\ pc[p] = "respond"
    /\ req[p].op = "check"
    /\ IF loc[p].existing_entry # NoEntry /\ ToDictRaises
       THEN Raise(p, "AttributeError")
       ELSE /\ pc' = [pc EXCEPT ![p] = "done"]
            /\ resp' = [resp EXCEPT ![p] =
                           [status |-> 200,
                            is_duplicate |-> loc[p].is_duplicate,
                            content_hash |-> loc[p].content_hash,
                            existing_entry |-> loc[p].existing_entry]]
            /\ UNCHANGED exc
    /\ UNCHANGED <<store, clock, req, loc>>

(***************************************************************************)
(* submit_data: read the file, parse the metadata.                         *)
(***************************************************************************)
SubmitBegin(p) ==
    /\ pc[p] \in {"idle", "done"}
    /\ clock < MaxCalls
    /\ clock' = clock + 1
    /\ \E content \in Payloads, hints \in Hints, metadata \in Metadatas :
          /\ req' = [req EXCEPT ![p] =
                        [op |-> "submit", content |-> content, hints |-> hints]]
          /\ loc' = [loc EXCEPT ![p] = NoLoc]
          /\ IF MetadataRaises(metadata)
             THEN Raise(p, "JSONDecodeError")
             ELSE /\ pc' = [pc EXCEPT ![p] = "validate"]
                  /\ exc' = [exc EXCEPT ![p] = None]
                  /\ resp' = [resp EXCEPT ![p] = NoResponse]
    /\ UNCHANGED store

(***************************************************************************)
(* A create_data_entry that overwrites the existing entry's fields with    *)
(* the hints of the later call.                                            *)
(***************************************************************************)
SubmitValidateUpsert(p) ==
    /\ pc[p] = "validate"
    /\ req[p].op = "submit"
    /\ LET v == validate_data(store, req[p].content, req[p].hints.content_type)
           n == NewEntry(req[p].content, v.content_hash, req[p].hints)
           u == [v.existing_entry EXCEPT !.content_type = n.content_type,
                                         !.is_verified = n.is_verified,
                                         !.source = n.source,
                                         !.confidence_score = n.confidence_score,
                                         !.updated_at = clock]
       IN IF v.is_duplicate
          THEN /\ store' = (store \ {v.existing_entry}) \cup {u}
               /\ loc' = [loc EXCEPT ![p] =
                             [@ EXCEPT !.is_duplicate = TRUE,
                                       !.existing_entry = u,
                                       !.content_hash = v.content_hash,
                                       !.entry = u]]
               /\ pc' = [pc EXCEPT ![p] = "respond"]
          ELSE /\ store' = store
               /\ loc' = [loc EXCEPT ![p] =
                             [@ EXCEPT !.content_hash = v.content_hash,
                                       !.classified = v.classified,
                                       !.new_entry = n]]
               /\ pc' = [pc EXCEPT ![p] = "commit"]
    /\ UNCHANGED <<clock, req, exc, resp>>

(***************************************************************************)
(* create_data_entry up to db.add: validate_data (one SELECT), then either *)
(* return the existing entry or build the new one.                         *)
(***************************************************************************)
SubmitValidate(p) ==
    /\ pc[p] = "validate"
    /\ req[p].op = "submit"
    /\ \/ LET v == validate_data(store, req[p].content, req[p].hints.content_type) IN
          /\ IF v.is_duplicate /\ v.existing_entry # NoEntry
             THEN /\ loc' = [loc EXCEPT ![p] =
                                [@ EXCEPT !.is_duplicate = v.is_duplicate,
                                          !.existing_entry = v.existing_entry,
                                          !.content_hash = v.content_hash,
                                          !.classified = v.classified,
                                          !.entry = v.existing_entry]]
                  /\ pc' = [pc EXCEPT ![p] = "respond"]
             ELSE /\ loc' = [loc EXCEPT ![p] =
                                [@ EXCEPT !.is_duplicate = v.is_duplicate,
                                          !.existing_entry = v.existing_entry,
                                          !.content_hash = v.content_hash,
                                          !.classified = v.classified
                                              + (IF req[p].hints.content_type = None
                                                 THEN 1 ELSE 0),
                                          !.new_entry = NewEntry(req[p].content,
                                                                 v.content_hash,
                                                                 req[p].hints)]]
                  /\ pc' = [pc EXCEPT ![p] = "commit"]
          /\ UNCHANGED <<exc, resp>>
       \/ /\ Raise(p, "OperationalError")
          /\ UNCHANGED loc
    /\ UNCHANGED <<store, clock, req>>

(***************************************************************************)
(* create_data_entry: db.add, db.commit, db.refresh, return new_entry.     *)
(***************************************************************************)
SubmitCommit(p) ==
    /\ pc[p] = "commit"
    /\ \/ /\ Raise(p, "OperationalError")
          /\ UNCHANGED <<store, loc>>
       \/ IF ~Utf8Encodable(loc[p].new_entry.content)
          THEN /\ Raise(p, "UnicodeEncodeError")
               /\ UNCHANGED <<store, loc>>
          ELSE LET r == DbInsert(store, loc[p].new_entry, clock) IN
               IF r.ok
               THEN /\ store' = r.table
                    /\ loc' = [loc EXCEPT ![p] =
                                  [@ EXCEPT !.entry = r.row, !.created = TRUE]]
                    /\ pc' = [pc EXCEPT ![p] = "respond"]
                    /\ UNCHANGED <<exc, resp>>
               ELSE /\ Raise(p, "IntegrityError")
                    /\ UNCHANGED <<store, loc>>
    /\ UNCHANGED <<clock, req>>

(***************************************************************************)
(* A submit_data that undoes the insert when building the response fails.  *)
(***************************************************************************)
SubmitRespondRollback(p) ==
    /\ pc[p] = "respond"
    /\ req[p].op = "submit"
    /\ Raise(p, "AttributeError")
    /\ store' = IF loc[p].created THEN store \ {loc[p].entry} ELSE store
    /\ UNCHANGED <<clock, req, loc>>

(***************************************************************************)
(* submit_data: return entry.to_dict().                                    *)
(***************************************************************************)
SubmitRespond(p) ==
    /\ pc[p] = "respond"
    /\ req[p].op = "submit"
    /\ IF ToDictRaises
       THEN Raise(p, "AttributeError")
       ELSE /\ pc' = [pc EXCEPT ![p] = "done"]
            /\ resp' = [resp EXCEPT ![p] = [status |-> 200, entry |-> loc[p].entry]]
            /\ UNCHANGED exc
    /\ UNCHANGED <<store, clock, req, loc>>

(***************************************************************************)
(* list_entries: one SELECT with the optional filters, OFFSET and LIMIT    *)
(* and no ORDER BY, then entry.to_dict() for each row.  The exception of   *)
(* to_dict is not caught in this handler: the caller gets HTTP 500.        *)
(***************************************************************************)
\* "if content_type:" and "if verified is not None:"; verified is <<>> when
\* it is not supplied and <<v>> otherwise.
Matches(e, content_type, verified) ==
    /\ (content_type \notin {None, ""} => e.content_type = content_type)
    /\ (Len(verified) > 0 => e.is_verified = verified[1])

\* The orders in which a SELECT without ORDER BY may return the rows.
RowOrders(rows) ==
    {f \in [1..Cardinality(rows) -> rows] :
        \A i, j \in 1..Cardinality(rows) : i # j => f[i] # f[j]}

\* .offset(skip).limit(limit)
OffsetLimit(rows, skip, limit) ==
    SubSeq(rows, skip + 1, Min(Len(rows), skip + limit))

ListEntries(p) ==
    /\ pc[p] \in {"idle", "done"}
    /\ clock < MaxCalls
    /\ clock' = clock + 1
    /\ \E skip \in {0, 1}, limit \in {1, 100},
          content_type \in {None, "", "text/plain"},
          verified \in {<<>>, <<TRUE>>} :
          \E rows \in RowOrders({e \in store : Matches(e, content_type, verified)}) :
             LET entries == OffsetLimit(rows, skip, limit) IN
             /\ req' = [req EXCEPT ![p] =
                           [op |-> "list", at |-> clock + 1,
                            skip |-> skip, limit |-> limit,
                            content_type |-> content_type,
                            verified |-> verified]]
             /\ loc' = [loc EXCEPT ![p] = NoLoc]
             /\ pc' = [pc EXCEPT ![p] = "done"]
             /\ IF Len(entries) > 0 /\ ToDictRaises
                THEN /\ exc' = [exc EXCEPT ![p] = "AttributeError"]
                     /\ resp' = [resp EXCEPT ![p] = [status |-> 500]]
                ELSE /\ exc' = [exc EXCEPT ![p] = None]
                     /\ resp' = [resp EXCEPT ![p] =
                                    [status |-> 200, entries |-> entries]]
    /\ UNCHANGED store

Next ==
    \E p \in Procs :
        \/ CheckBegin(p)
        \/ CheckValidate(p)
        \/ CheckRespond(p)
        \/ SubmitBegin(p)
        \/ SubmitValidate(p)
        \/ SubmitCommit(p)
        \/ SubmitRespond(p)
        \/ ListEntries(p)

Spec == Init /\ [][Next]_vars

(***************************************************************************)
(* Shorthands of the properties.                                           *)
(***************************************************************************)
HashOf(p) == generate_hash(req[p].content)

\* The call of p got through the metadata parsing and met no storage outage.
StorageReachable(p) == exc[p] \notin {"JSONDecodeError", "OperationalError"}

\* create_data_entry has returned or raised in the submit call of p.
CreateFinished(p) ==
    /\ req[p].op = "submit"
    /\ pc[p] \in {"respond", "done"}
    /\ StorageReachable(p)

(***************************************************************************)
(* C1: in every reachable state no two persisted entries share a           *)
(* content_hash: there are never two distinct ids for one content_hash.    *)
(***************************************************************************)
C1_UniqueContentHash ==
    \A e1, e2 \in store : e1.content_hash = e2.content_hash => e1.id = e2.id /\ e1 = e2

\* Two callers both passed the existence check for the same bytes; one insert
\* was committed and the other was rejected by the index.
C1_Witness ==
    \E p, q \in Procs :
        /\ p # q
        /\ req[p].op = "submit" /\ req[q].op = "submit"
        /\ req[p].content = req[q].content
        /\ loc[p].created
        /\ exc[q] = "IntegrityError"
        /\ \E e \in store : e.content_hash = HashOf(p)

(***************************************************************************)
(* C2 (as claimed): submit calls with the same bytes, in any interleaving, *)
(* all return an entry, the entries agree in id and content_hash, and      *)
(* exactly one entry is persisted for those bytes.                         *)
(***************************************************************************)
C2_IdempotentSubmission ==
    \A p, q \in Procs :
        ( /\ CreateFinished(p) /\ CreateFinished(q)
          /\ req[p].content = req[q].content
          /\ exc[p] # "UnicodeEncodeError" /\ exc[q] # "UnicodeEncodeError" )
        => /\ loc[p].entry # NoEntry
           /\ loc[q].entry # NoEntry
           /\ loc[p].entry.id = loc[q].entry.id
           /\ loc[p].entry.content_hash = HashOf(p)
           /\ loc[q].entry.content_hash = HashOf(p)
           /\ Cardinality({e \in store : e.content_hash = HashOf(p)}) = 1

(***************************************************************************)
(* C3 (as claimed): an insert rejected for the uniqueness of content_hash  *)
(* is recovered by re-reading; the conflict never ends a call as an error. *)
(***************************************************************************)
C3_ConflictNeverSurfaced ==
    \A p \in Procs :
        /\ exc[p] # "IntegrityError"
        /\ (pc[p] = "done" /\ resp[p].status = 400
               => resp[p].detail # ExcMessage("IntegrityError"))

(***************************************************************************)
(* C4: a check call is a pure read: no step of a check call, whether it    *)
(* finds the content or not and whether it ends in an error or not,        *)
(* changes the persisted entry set.                                        *)
(***************************************************************************)
C4_CheckIsPureRead ==
    [][ \A p \in Procs :
           (req'[p].op = "check" /\ <<pc[p], req[p]>> # <<pc'[p], req'[p]>>)
           => store' = store ]_vars

\* Checks have finished against a non-empty store: one in an error, one of
\* content that is not stored.
C4_Witness ==
    \E p, q \in Procs :
        /\ req[p].op = "check" /\ pc[p] = "done" /\ resp[p].status = 400
        /\ exc[p] = "AttributeError"
        /\ req[q].op = "submit" /\ loc[q].created
        /\ store # {}

(***************************************************************************)
(* C5 (as claimed): a check of bytes b answers with content_hash =         *)
(* identity(b), with is_duplicate = TRUE and the stored entry when an      *)
(* entry of that content_hash is persisted, and with is_duplicate = FALSE  *)
(* and no entry otherwise.                                                 *)
(***************************************************************************)
C5_CheckReportsDuplicate ==
    \A p \in Procs :
        (req[p].op = "check" /\ pc[p] = "done" /\ StorageReachable(p))
        => /\ resp[p].status = 200
           /\ resp[p].content_hash = HashOf(p)
           /\ resp[p].is_duplicate = (loc[p].existing_entry # NoEntry)
           /\ resp[p].existing_entry = loc[p].existing_entry
           /\ (resp[p].is_duplicate =>
                  /\ resp[p].existing_entry \in store
                  /\ resp[p].existing_entry.content_hash = HashOf(p))

(***************************************************************************)
(* C6: a submit of bytes whose content_hash is already persisted returns   *)
(* the existing entry and mutates nothing: no field of a stored entry      *)
(* changes and no entry is added, whatever hints the call carries.         *)
(***************************************************************************)
C6_DuplicateSubmitMutatesNothing ==
    [][ \A p \in Procs :
           /\ ( /\ req[p].op = "submit"
                /\ pc[p] = "validate" /\ pc'[p] # "validate"
                /\ exc'[p] # "OperationalError"
                /\ \E e \in store : e.content_hash = HashOf(p) )
              => /\ store' = store
                 /\ pc'[p] = "respond"
                 /\ loc'[p].entry \in store
                 /\ loc'[p].entry.content_hash = HashOf(p)
                 /\ ~loc'[p].created
           /\ ( /\ req[p].op = "submit" /\ req'[p] = req[p]
                /\ loc[p].is_duplicate
                /\ pc[p] # pc'[p] )
              => store' = store ]_vars

\* A submit found its bytes stored by an earlier call that carried other hints.
C6_Witness ==
    \E p \in Procs :
        /\ req[p].op = "submit"
        /\ pc[p] \in {"respond", "done"}
        /\ loc[p].is_duplicate
        /\ loc[p].entry \in store
        /\ req[p].hints.content_type # None
        /\ loc[p].entry.content_type # req[p].hints.content_type
        /\ loc[p].entry.is_verified # req[p].hints.is_verified
        /\ loc[p].entry.source # req[p].hints.source

(***************************************************************************)
(* C7: every persisted entry has confidence_score in 0..100, and the entry *)
(* a submit creates stores the caller's score clamped to 0..100; a score   *)
(* out of range does not keep the call from creating its entry.            *)
(***************************************************************************)
C7_ConfidenceClamped ==
    /\ \A e \in store : e.confidence_score \in 0..100
    /\ \A p \in Procs :
          loc[p].created =>
              LET s == req[p].hints.confidence_score IN
              /\ loc[p].entry \in store
              /\ loc[p].entry.confidence_score
                    = (IF s < 0 THEN 0 ELSE IF s > 100 THEN 100 ELSE s)
    /\ \A p \in Procs :
          (pc[p] = "commit") => loc[p].new_entry.confidence_score \in 0..100

\* One entry was created from the score -5 and one from the score 500.
C7_Witness ==
    \E p, q \in Procs :
        /\ loc[p].created /\ req[p].hints.confidence_score = -5
        /\ loc[p].entry.confidence_score = 0
        /\ loc[q].created /\ req[q].hints.confidence_score = 500
        /\ loc[q].entry.confidence_score = 100
        /\ {loc[p].entry, loc[q].entry} \subseteq store

(***************************************************************************)
(* C8: entries are write-once: every step keeps each persisted entry with  *)
(* its id, content_hash and content, and an entry is added only for a      *)
(* content_hash (and under an id) that no persisted entry has.             *)
(***************************************************************************)
C8_WriteOnce ==
    [][ /\ \A e \in store :
              \E f \in store' : /\ f.id = e.id
                                /\ f.content_hash = e.content_hash
                                /\ f.content = e.content
        /\ \A f \in store' \ store :
              \A e \in store : e.content_hash # f.content_hash /\ e.id # f.id ]_vars

\* An entry outlived a later submit of the same bytes that did not create it.
C8_Witness ==
    \E e \in store, p \in Procs :
        /\ e.created_at < clock
        /\ req[p].op = "submit"
        /\ pc[p] = "done"
        /\ HashOf(p) = e.content_hash
        /\ ~loc[p].created
        /\ loc[p].is_duplicate
        /\ loc[p].entry.id = e.id
        /\ loc[p].entry.content = e.content

(***************************************************************************)
(* C9 (as claimed): no submit fails because of the content of its bytes:   *)
(* with storage reachable and no concurrent writer of the same bytes, the  *)
(* call ends with an entry of its content_hash persisted.                  *)
(***************************************************************************)
C9_NoFailureFromContent ==
    \A p \in Procs :
        ( /\ req[p].op = "submit"
          /\ pc[p] = "done"
          /\ StorageReachable(p)
          /\ exc[p] # "IntegrityError" )
        => /\ exc[p] # "UnicodeEncodeError"
           /\ \E e \in store : e.content_hash = HashOf(p)

(***************************************************************************)
(* C10 (as claimed): an insert that fails for a reason other than the      *)
(* uniqueness conflict ends the call with an error whose kind differs from *)
(* that of an invalid-input error; the call reports no success and leaves  *)
(* no entry behind.                                                        *)
(***************************************************************************)
C10_PersistenceErrorDistinguishable ==
    \A p, q \in Procs :
        ( /\ req[p].op = "submit"
          /\ loc[p].new_entry # NoEntry
          /\ exc[p] = "OperationalError"
          /\ exc[q] = "JSONDecodeError" )
        => /\ resp[p].status # 200
           /\ ~loc[p].created
           /\ resp[p].status # resp[q].status

(***************************************************************************)
(* C11: a committed insert is never rolled back: the entry a call created  *)
(* stays persisted through every later step, the failure of that call      *)
(* before its response included, and a later check or submit of the same   *)
(* bytes finds that entry.                                                 *)
(***************************************************************************)
C11_CommitSurvivesFailure ==
    [][ \A p \in Procs :
           /\ (loc[p].created /\ req'[p] = req[p]) => loc[p].entry \in store'
           /\ (loc'[p].created /\ ~loc[p].created) => loc'[p].entry \in store'
           /\ \A q \in Procs :
                 ( /\ loc[p].created
                   /\ req[q].op \in {"check", "submit"}
                   /\ req[q].content = req[p].content
                   /\ pc[q] = "validate" /\ pc'[q] # "validate"
                   /\ exc'[q] # "OperationalError" )
                 => /\ loc'[q].is_duplicate
                    /\ loc'[q].existing_entry = loc[p].entry ]_vars

\* The call that committed an entry ended in an error, and a later call of
\* the same bytes found the entry.
C11_Witness ==
    \E p, q \in Procs :
        /\ p # q
        /\ loc[p].created
        /\ pc[p] = "done" /\ resp[p].status = 400
        /\ loc[p].entry \in store
        /\ req[q].op \in {"check", "submit"}
        /\ req[q].content = req[p].content
        /\ loc[q].is_duplicate
        /\ loc[q].existing_entry = loc[p].entry

(***************************************************************************)
(* C12 (as claimed): a list call answers with exactly the persisted        *)
(* entries that match the supplied content_type and verified filters,      *)
(* ordered by id ascending, without the first skip of them and with at     *)
(* most limit of them.                                                     *)
(***************************************************************************)
C12_ListFilteredById ==
    [][ \A p \in Procs :
           (req'[p].op = "list" /\ req'[p].at = clock' /\ clock' # clock)
           => LET r == req'[p]
                  matching == {e \in store :
                                  /\ (r.content_type # None
                                         => e.content_type = r.content_type)
                                  /\ (Len(r.verified) > 0
                                         => e.is_verified = r.verified[1])}
                  n == Cardinality(matching)
                  byId == CHOOSE f \in [1..n -> matching] :
                              \A i, j \in 1..n : i < j => f[i].id < f[j].id
                  last == IF r.skip + r.limit < n THEN r.skip + r.limit ELSE n
              IN /\ resp'[p].status = 200
                 /\ resp'[p].entries = SubSeq(byId, r.skip + 1, last) ]_vars

(***************************************************************************)
(* C13 (as claimed): two concurrent submits of the same bytes never both   *)
(* get is_duplicate = FALSE from their existence check: they are never     *)
(* both on the branch that creates a new entry for one content_hash.       *)
(***************************************************************************)
C13_NoTwoCreators ==
    \A p, q \in Procs :
        ( /\ p # q
          /\ req[p].op = "submit" /\ req[q].op = "submit"
          /\ req[p].content = req[q].content )
        => ~( /\ pc[p] = "commit" /\ ~loc[p].is_duplicate
              /\ pc[q] = "commit" /\ ~loc[q].is_duplicate
              /\ loc[q].content_hash = loc[p].content_hash )

(***************************************************************************)
(* C14 (as claimed): detect_content_type is called only when the caller    *)
(* gave no content type and only on the path that creates a new entry:     *)
(* never in a check call, never when the content exists, never when a      *)
(* content type was given.                                                 *)
(***************************************************************************)
C14_ClassifierOnlyOnCreate ==
    \A p \in Procs :
        /\ (req[p].op = "check" => loc[p].classified = 0)
        /\ (loc[p].classified > 0 =>
               /\ req[p].op = "submit"
               /\ req[p].hints.content_type = None
               /\ ~loc[p].is_duplicate)

(***************************************************************************)
(* C15: the duplicate decision of a check or submit depends only on the    *)
(* raw bytes and the store: whatever hints the call carries, it computes   *)
(* content_hash = identity(bytes), is_duplicate = TRUE exactly when an     *)
(* entry of that content_hash is persisted, and that entry as the existing *)
(* one.                                                                    *)
(***************************************************************************)
C15_DecisionIgnoresHints ==
    [][ \A p \in Procs :
           ( /\ req[p].op \in {"check", "submit"}
             /\ pc[p] = "validate" /\ pc'[p] # "validate"
             /\ exc'[p] # "OperationalError" )
           => LET same == {e \in store : e.content_hash = [blake3 |-> req[p].content]}
              IN /\ loc'[p].content_hash = [blake3 |-> req[p].content]
                 /\ loc'[p].is_duplicate = (same # {})
                 /\ (same # {} => loc'[p].existing_entry \in same)
                 /\ (same = {} => loc'[p].existing_entry = NoEntry) ]_vars

\* Two calls with the same bytes and different hints ran their existence
\* check against the same store and got the same decision and content_hash.
C15_Witness ==
    \E p, q \in Procs :
        /\ p # q
        /\ req[p].op = "submit" /\ req[q].op \in {"check", "submit"}
        /\ req[p].content = req[q].content
        /\ req[p].hints # req[q].hints
        /\ req[p].hints.content_type # None
        /\ pc[p] = "commit" /\ pc[q] \in {"commit", "respond"}
        /\ loc[p].is_duplicate = loc[q].is_duplicate
        /\ loc[p].content_hash = loc[q].content_hash
        /\ store = {}

(***************************************************************************)
(* C16: every entry a submit creates (or is about to insert) has           *)
(* content_hash = identity(raw bytes), never the hash of the normalized    *)
(* content, and content_type = the caller's content type when one was      *)
(* given and the classifier's label of the bytes otherwise.                *)
(***************************************************************************)
C16_HashOfRawBytes ==
    \A p \in Procs :
        /\ (pc[p] = "commit" =>
               /\ loc[p].new_entry.content_hash = [blake3 |-> req[p].content]
               /\ loc[p].new_entry.content_type
                     = (IF req[p].hints.content_type # None
                        THEN req[p].hints.content_type
                        ELSE detect_content_type(req[p].content)))
        /\ (loc[p].created =>
               /\ loc[p].entry.content_hash = [blake3 |-> req[p].content]
               /\ (loc[p].entry.content # req[p].content
                      => loc[p].entry.content_hash # [blake3 |-> loc[p].entry.content])
               /\ loc[p].entry.content_type
                     = (IF req[p].hints.content_type # None
                        THEN req[p].hints.content_type
                        ELSE detect_content_type(req[p].content)))

\* One entry was created without a content type from bytes that are stored
\* in another form, and one with a content type.
C16_Witness ==
    \E p, q \in Procs :
        /\ loc[p].created /\ loc[q].created
        /\ req[p].hints.content_type = None
        /\ loc[p].entry.content # req[p].content
        /\ loc[p].entry.content_type = detect_content_type(req[p].content)
        /\ req[q].hints.content_type # None
        /\ loc[q].entry.content_type = req[q].hints.content_type
        /\ {loc[p].entry, loc[q].entry} \subseteq store

(***************************************************************************)
(* C17: the content of a new entry follows the three-way policy: bytes     *)
(* that decode as UTF-8 and parse as JSON are stored pretty-printed with   *)
(* a 2-space indent and non-ASCII characters unescaped, bytes that decode  *)
(* but do not parse are stored as the decoded text, bytes that do not      *)
(* decode are stored as their base64 encoding.                             *)
(***************************************************************************)
C17_Policy(content, stored) ==
    LET d == Utf8Decode(content) IN
    /\ (~d.ok => stored = b64encode(content))
    /\ (d.ok /\ ~JsonLoads(d.s).ok => stored = d.s)
    /\ (d.ok /\ JsonLoads(d.s).ok => stored = JsonDumps(JsonLoads(d.s).v))
    /\ (content = <<104, 105>> => stored = <<104, 105>>)
    /\ (content = <<123, 34, 97, 34, 58, 49, 125>>
           => stored = <<123, 10, 32, 32, 34, 97, 34, 58, 32, 49, 10, 125>>)
    /\ (content = <<255>> => stored = <<47, 119, 61, 61>>)
    /\ (content = <<34, 92, 117, 100, 56, 48, 48, 34>> => stored = <<34, 55296, 34>>)

C17_NormalizationPolicy ==
    \A p \in Procs :
        /\ (pc[p] = "commit" => C17_Policy(req[p].content, loc[p].new_entry.content))
        /\ (loc[p].created => C17_Policy(req[p].content, loc[p].entry.content))

\* A JSON document and a binary payload have both been stored.
C17_Witness ==
    \E p, q \in Procs :
        /\ loc[p].created /\ loc[q].created
        /\ req[p].content = <<123, 34, 97, 34, 58, 49, 125>>
        /\ req[q].content = <<255>>
        /\ loc[p].entry.content # req[p].content
        /\ {loc[p].entry, loc[q].entry} \subseteq store

(***************************************************************************)
(* C18: whenever create_data_entry has returned an entry to submit_data,   *)
(* that entry is a row of the store and its content_hash is the identity   *)
(* of the bytes of that call: never an entry of other content, never an    *)
(* entry that is not persisted.                                            *)
(***************************************************************************)
C18_ReturnedEntryPersisted ==
    \A p \in Procs :
        (/\ pc[p] \in {"respond", "done"}
         /\ req[p].op = "submit"
         /\ loc[p].entry # NoEntry)
        => /\ loc[p].entry \in store
           /\ loc[p].entry.content_hash = [blake3 |-> req[p].content]

\* One call got back the entry it created and another call got back an
\* entry it found in the store.
C18_Witness ==
    \E p, q \in Procs :
        /\ p # q
        /\ req[p].op = "submit" /\ pc[p] \in {"respond", "done"}
        /\ loc[p].created /\ loc[p].entry \in store
        /\ req[q].op = "submit" /\ pc[q] = "respond"
        /\ loc[q].entry # NoEntry /\ ~loc[q].created
        /\ loc[q].entry \in store

(***************************************************************************)
(* C19: a submit_data call that reports an error to its caller has added   *)
(* no entry to the store, errors raised by entry.to_dict() after           *)
(* create_data_entry returned included.                                    *)
(***************************************************************************)
C19_ErroredSubmitAddsNothing ==
    \A p \in Procs :
        (/\ req[p].op = "submit"
         /\ pc[p] = "done"
         /\ resp[p].status # 200)
        => ~(loc[p].created /\ loc[p].entry \in store)

====
